---- MODULE Spec2Model ----
(***************************************************************************)
(* Model of src/src/App.tsx: the host-global bridge (useOpenAiGlobal,      *)
(* useTheme, useDisplayMode) and the todo view (App).                      *)
(*                                                                         *)
(* React state is modelled as it behaves: a state variable holds the last  *)
(* value handed to its setter; the handlers of a view are closures over    *)
(* the values of the last render (view), so a handler invoked before the   *)
(* next render reads the rendered values, not the pending ones.  A render  *)
(* commits the snapshot and runs the effects whose dependencies changed.   *)
(*                                                                         *)
(* JavaScript strings that the code inspects character by character (the   *)
(* input field, trim) are sequences of one-character strings.  JavaScript  *)
(* values of host globals are tags: "undefined" is the value undefined,    *)
(* "" is the empty string; both are falsy, every other tag is truthy.      *)
(***************************************************************************)
EXTENDS Integers, Sequences, FiniteSets

VARIABLES
    mounted,     \* the consuming view is rendered in the document
    openai,      \* window.openai: [present, fields]
    keys,        \* per hook call of the view, the key it is called with
    value,       \* per hook call, useState value (line 24)
    effKey,      \* per hook call, the [key] dependency of its last effect run
    listeners,   \* listeners registered on window for "openai:set_globals"
    view,        \* values captured by the last render: [todos, inputValue, vals]
    effTheme,    \* the [theme] dependency of the last theme-effect run
    dark,        \* document.documentElement.classList contains 'dark'
    todos,       \* useState<TodoItem[]> (line 49)
    inputValue,  \* useState("") (line 50)
    now,         \* Date.now()
    log,         \* history: the last handler invocation; for an add the input
                 \* it was invoked with, for a toggle the list before it
    nops,        \* history: handler invocations since mount (capped)
    lastRecv     \* history: per hook call, value of the last payload carrying
                 \* its key since its listener was registered

vars == <<mounted, openai, keys, value, effKey, listeners, view, effTheme,
          dark, todos, inputValue, now, log, nops, lastRecv>>

bridgeVars == <<openai, keys, value, effKey, listeners, effTheme, dark, lastRecv>>
todoVars == <<todos, inputValue, now, log, nops>>

----------------------------------------------------------------------------
(* Bounds *)

MaxTodos == 2
MaxTime == 2

----------------------------------------------------------------------------
(* JavaScript values *)

Undefined == "undefined"
EmptyString == ""
NoDeps == "no-deps"        \* an effect that has not run yet has no dependencies
NoPayload == "no-payload"  \* history marker: no payload carried the key yet

\* OpenAiGlobals (lines 1-9), the fields the model exercises and the values
\* they take; every field is optional and may be present with value undefined
Keys == {"theme", "displayMode", "locale"}

FieldValues(k) ==
    CASE k = "theme" -> {Undefined, "light", "dark"}
      [] k = "displayMode" -> {Undefined, "inline", "fullscreen"}
      [] OTHER -> {Undefined, EmptyString, "en"}

AllValues == UNION {FieldValues(k) : k \in Keys}

\* JavaScript truthiness of a value, as tested by `if (window.openai?.[key])`
Truthy(v) == v \notin {Undefined, EmptyString}

\* Partial<OpenAiGlobals> (lines 10-12): a mapping defined on some of the keys
Globals(ks) ==
    UNION {{g \in [K -> AllValues] : \A k \in K : g[k] \in FieldValues(k)} :
           K \in SUBSET ks}

\* window.openai?.[key] (line 26)
HostField(o, k) ==
    IF o.present /\ k \in DOMAIN o.fields THEN o.fields[k] ELSE Undefined

----------------------------------------------------------------------------
(* Strings *)

IsSpace(c) == c \in {" ", "\t"}

RECURSIVE TrimStart(_)
TrimStart(s) ==
    IF s = <<>> THEN <<>>
    ELSE IF IsSpace(Head(s)) THEN TrimStart(Tail(s)) ELSE s

RECURSIVE TrimEnd(_)
TrimEnd(s) ==
    IF s = <<>> THEN <<>>
    ELSE IF IsSpace(s[Len(s)]) THEN TrimEnd(SubSeq(s, 1, Len(s) - 1)) ELSE s

\* String.prototype.trim (line 58)
Trim(s) == TrimEnd(TrimStart(s))

BuyMilk == <<"B", "u", "y", " ", "m", "i", "l", "k">>

\* what the user may have typed into the input field
Inputs == {<<>>, <<" ", "\t">>, <<" ", "a", " ">>, BuyMilk}

Digit(d) ==
    CASE d = 0 -> "0" [] d = 1 -> "1" [] d = 2 -> "2" [] d = 3 -> "3"
      [] d = 4 -> "4" [] d = 5 -> "5" [] d = 6 -> "6" [] d = 7 -> "7"
      [] d = 8 -> "8" [] OTHER -> "9"

\* a number as JSX renders it: its decimal digits
RECURSIVE NumText(_)
NumText(n) ==
    IF n < 10 THEN <<Digit(n)>> ELSE NumText(n \div 10) \o <<Digit(n % 10)>>

----------------------------------------------------------------------------
(* Todo list *)

\* [...todos, { id: Date.now(), text: inputValue, completed: false }] (line 59)
AddedItem(t, text) == [id |-> t, text |-> text, completed |-> FALSE]

\* todo.id === id ? { ...todo, completed: !todo.completed } : todo (line 66)
Toggled(todo, id) ==
    IF todo.id = id THEN [todo EXCEPT !.completed = ~todo.completed] ELSE todo

\* todos.map(...) (lines 65-67)
ToggleList(l, id) == [i \in 1..Len(l) |-> Toggled(l[i], id)]

\* todos.filter(todo => todo.id !== id) (line 71)
RECURSIVE DeleteList(_, _)
DeleteList(l, id) ==
    IF l = <<>> THEN <<>>
    ELSE IF Head(l).id # id THEN <<Head(l)>> \o DeleteList(Tail(l), id)
         ELSE DeleteList(Tail(l), id)

\* a filter that keeps every item
KeepsAll(l) == l

\* todos.filter(t => !t.completed) (line 145)
RECURSIVE NotCompleted(_)
NotCompleted(l) ==
    IF l = <<>> THEN <<>>
    ELSE IF ~Head(l).completed THEN <<Head(l)>> \o NotCompleted(Tail(l))
         ELSE NotCompleted(Tail(l))

\* a count of the completed items instead of the open ones
CountsCompleted(l) == Len(l) - Len(NotCompleted(l))

\* todos.filter(t => !t.completed).length (line 145)
Remaining(l) == Len(NotCompleted(l))

\* the footer text (lines 144-146)
Footer(l) ==
    NumText(Remaining(l)) \o <<" of ">> \o NumText(Len(l)) \o <<" tasks remaining">>

----------------------------------------------------------------------------
(* Host-global bridge: useOpenAiGlobal (lines 23-35) *)

\* the hook calls of App: useTheme() and useDisplayMode() (lines 37-38, 47-48)
AppKeys == <<"theme", "displayMode">>

\* window.openai as the host may have set it up before the view is created
HostObjects(ks) ==
    {[present |-> FALSE, fields |-> <<>>]}
        \cup {[present |-> TRUE, fields |-> g] : g \in Globals(ks)}

AllUndefined(ks) == [s \in DOMAIN ks |-> Undefined]
NoEffects(ks) == [s \in DOMAIN ks |-> NoDeps]
NoPayloads(ks) == [s \in DOMAIN ks |-> NoPayload]

\* if (window.openai?.[key]) { setValue(window.openai[key]); } (line 26)
InitialRead(o, k, v) == IF Truthy(HostField(o, k)) THEN HostField(o, k) ELSE v

\* a handler that replaces the value only when the new value is truthy
HandlerIfTruthy(val, l, g) ==
    IF l.key \in DOMAIN g /\ Truthy(g[l.key])
    THEN [val EXCEPT ![l.slot] = g[l.key]] ELSE val

\* the handler of one listener, called with the event's detail.globals
\* (lines 27-30): l is the listener [slot, key], val the hook values
Handler(val, l, g) ==
    IF l.key \in DOMAIN g THEN [val EXCEPT ![l.slot] = g[l.key]] ELSE val

\* window.addEventListener("openai:set_globals", handler) (line 31)
AddListener(ls, s, k) == Append(ls, [slot |-> s, key |-> k])

\* window.removeEventListener("openai:set_globals", handler) (line 32): the
\* handler registered by the effect run of hook call s for key k is removed
RECURSIVE RemoveListener(_, _, _)
RemoveListener(ls, s, k) ==
    IF ls = <<>> THEN <<>>
    ELSE IF Head(ls) = [slot |-> s, key |-> k] THEN Tail(ls)
         ELSE <<Head(ls)>> \o RemoveListener(Tail(ls), s, k)

\* a cleanup that leaves the listener registered
CleanupLeak(ls, s, k) == ls

\* the cleanup of the last effect run of hook call s, if there was one
Cleanup(ls, s, k) == IF k = NoDeps THEN ls ELSE RemoveListener(ls, s, k)

\* the effect of hook call s runs when its [key] dependency changed (line 33)
Rerun(ks, s) == effKey[s] # ks[s]

\* cleanups, then setups, of the hook effects of a render with keys ks
RECURSIVE CleanupAll(_, _, _)
CleanupAll(ls, ks, s) ==
    IF s > Len(ks) THEN ls
    ELSE CleanupAll(IF Rerun(ks, s) THEN Cleanup(ls, s, effKey[s]) ELSE ls, ks, s + 1)

RECURSIVE SetupAll(_, _, _)
SetupAll(ls, ks, s) ==
    IF s > Len(ks) THEN ls
    ELSE SetupAll(IF Rerun(ks, s) THEN AddListener(ls, s, ks[s]) ELSE ls, ks, s + 1)

\* useEffect(..., [key]) of every hook call of the view (lines 25-33)
HookEffects(ks) ==
    /\ value' = [s \in DOMAIN ks |->
                    IF Rerun(ks, s) THEN InitialRead(openai, ks[s], value[s])
                    ELSE value[s]]
    /\ listeners' = SetupAll(CleanupAll(listeners, ks, 1), ks, 1)
    /\ effKey' = ks
    /\ lastRecv' = [s \in DOMAIN ks |->
                       IF Rerun(ks, s) THEN NoPayload ELSE lastRecv[s]]

\* the listeners are called in registration order
RECURSIVE Dispatch(_, _, _)
Dispatch(ls, g, val) ==
    IF ls = <<>> THEN val ELSE Dispatch(Tail(ls), g, Handler(val, Head(ls), g))

\* a theme effect that adds the marker and never removes it
ThemeEffectNoRemove(theme, d) == IF theme = "dark" THEN TRUE ELSE d

\* the theme effect of App (lines 52-55): the new state of the dark marker
ThemeEffect(theme, d) == IF theme = "dark" THEN TRUE ELSE FALSE

\* what a render captures
Snapshot == [todos |-> todos, inputValue |-> inputValue, vals |-> value]

InitialView(ks) == [todos |-> <<>>, inputValue |-> <<>>, vals |-> AllUndefined(ks)]

NoLog == [op |-> "none", id |-> 0, input |-> <<>>, pre |-> <<>>]

\* the host dispatches "openai:set_globals" with detail.globals = g
HostPush(g) ==
    /\ value' = Dispatch(listeners, g, value)
    /\ lastRecv' = [s \in DOMAIN lastRecv |->
                       IF mounted /\ effKey[s] # NoDeps /\ effKey[s] \in DOMAIN g
                       THEN g[effKey[s]] ELSE lastRecv[s]]
    /\ UNCHANGED <<mounted, openai, keys, effKey, listeners, view, effTheme, dark>>
    /\ UNCHANGED todoVars

----------------------------------------------------------------------------
(* App (lines 46-150) *)

\* first render of App and its effects
Mount ==
    /\ ~mounted
    /\ mounted' = TRUE
    /\ keys' = AppKeys
    /\ view' = InitialView(AppKeys)
    /\ HookEffects(AppKeys)
    /\ effTheme' = Undefined
    /\ dark' = ThemeEffect(Undefined, dark)
    /\ UNCHANGED <<openai, todoVars>>

\* a re-render of App after a state change, and the effects it triggers
Render ==
    /\ mounted
    /\ view # Snapshot
    /\ view' = Snapshot
    /\ effTheme' = value[1]
    /\ dark' = IF value[1] # effTheme THEN ThemeEffect(value[1], dark) ELSE dark
    /\ UNCHANGED <<mounted, openai, keys, value, effKey, listeners, lastRecv>>
    /\ UNCHANGED todoVars

\* the view is destroyed: effect cleanups run, its state is discarded
Unmount ==
    /\ mounted
    /\ mounted' = FALSE
    /\ listeners' = CleanupAll(listeners, NoEffects(keys), 1)
    /\ value' = AllUndefined(keys)
    /\ effKey' = NoEffects(keys)
    /\ lastRecv' = NoPayloads(keys)
    /\ view' = InitialView(keys)
    /\ effTheme' = NoDeps
    /\ todos' = <<>>
    /\ inputValue' = <<>>
    /\ log' = NoLog
    /\ nops' = 0
    /\ UNCHANGED <<openai, keys, dark, now>>

\* onChange={(e) => setInputValue(e.target.value)} (line 100)
SetInput(v) ==
    /\ mounted
    /\ inputValue' = v
    /\ UNCHANGED <<todos, now, log, nops, view, mounted>>
    /\ UNCHANGED bridgeVars

Count(n) == IF n < 2 THEN n + 1 ELSE n

Logged(op, id) ==
    /\ log' = [op |-> op, id |-> id,
               input |-> IF op = "add" THEN view.inputValue ELSE <<>>,
               pre |-> IF op = "toggle" THEN todos ELSE <<>>]
    /\ nops' = Count(nops)

\* addTodo (lines 57-62)
AddTodo ==
    /\ mounted
    /\ Len(view.todos) < MaxTodos
    /\ IF Trim(view.inputValue) # <<>>
       THEN /\ todos' = Append(view.todos, AddedItem(now, view.inputValue))
            /\ inputValue' = <<>>
       ELSE UNCHANGED <<todos, inputValue>>
    /\ Logged("add", 0)
    /\ UNCHANGED <<now, view, mounted>>
    /\ UNCHANGED bridgeVars

\* toggleTodo (lines 64-68)
ToggleTodo(id) ==
    /\ mounted
    /\ todos' = ToggleList(view.todos, id)
    /\ Logged("toggle", id)
    /\ UNCHANGED <<inputValue, now, view, mounted>>
    /\ UNCHANGED bridgeVars

\* deleteTodo (lines 70-72)
DeleteTodo(id) ==
    /\ mounted
    /\ todos' = DeleteList(view.todos, id)
    /\ Logged("delete", id)
    /\ UNCHANGED <<inputValue, now, view, mounted>>
    /\ UNCHANGED bridgeVars

\* time passes: Date.now() advances
Tick ==
    /\ now < MaxTime
    /\ now' = now + 1
    /\ UNCHANGED <<todos, inputValue, log, nops, view, mounted>>
    /\ UNCHANGED bridgeVars

Ids == 0..MaxTime

InitCommon ==
    /\ mounted = FALSE
    /\ listeners = <<>>
    /\ effTheme = NoDeps
    /\ dark \in BOOLEAN
    /\ todos = <<>>
    /\ inputValue = <<>>
    /\ now = 1
    /\ log = NoLog
    /\ nops = 0

\* the todo view: App with a host that pushes nothing
Init ==
    /\ InitCommon
    /\ openai \in HostObjects({})
    /\ keys = AppKeys
    /\ value = AllUndefined(AppKeys)
    /\ effKey = NoEffects(AppKeys)
    /\ lastRecv = NoPayloads(AppKeys)
    /\ view = InitialView(AppKeys)

Next ==
    \/ Mount
    \/ Render
    \/ Unmount
    \/ \E v \in Inputs : SetInput(v)
    \/ AddTodo
    \/ \E id \in Ids : ToggleTodo(id)
    \/ \E id \in Ids : DeleteTodo(id)
    \/ Tick

Spec == Init /\ [][Next]_vars

\* App and the host: the bridge and the theme effect
BridgeInit ==
    /\ InitCommon
    /\ openai \in HostObjects({"theme", "displayMode"})
    /\ keys = AppKeys
    /\ value = AllUndefined(AppKeys)
    /\ effKey = NoEffects(AppKeys)
    /\ lastRecv = NoPayloads(AppKeys)
    /\ view = InitialView(AppKeys)

BridgeNext ==
    \/ Mount
    \/ Render
    \/ Unmount
    \/ \E g \in Globals({"theme", "displayMode"}) : HostPush(g)

BridgeSpec == BridgeInit /\ [][BridgeNext]_vars

\* useOpenAiGlobal(key) on its own: a view with one hook call whose key
\* argument is any of HookKeys and may change between renders
HookKeys == {"theme", "locale"}

HookInit ==
    /\ InitCommon
    /\ openai \in HostObjects(HookKeys)
    /\ keys \in {<<k>> : k \in HookKeys}
    /\ value = AllUndefined(keys)
    /\ effKey = NoEffects(keys)
    /\ lastRecv = NoPayloads(keys)
    /\ view = InitialView(keys)

\* first render of the view and the hook effect
HookMount ==
    /\ ~mounted
    /\ mounted' = TRUE
    /\ view' = InitialView(keys)
    /\ HookEffects(keys)
    /\ UNCHANGED <<openai, keys, effTheme, dark, todoVars>>

\* a re-render after setValue; the key is the same, no effect runs
HookRender ==
    /\ mounted
    /\ view # Snapshot
    /\ view' = Snapshot
    /\ UNCHANGED <<mounted, openai, keys, value, effKey, listeners, lastRecv,
                   effTheme, dark, todoVars>>

\* a re-render in which the hook is called with another key: the effect is
\* cleaned up and runs again (line 33)
KeyChange(k) ==
    /\ mounted
    /\ k # keys[1]
    /\ keys' = <<k>>
    /\ view' = Snapshot
    /\ HookEffects(<<k>>)
    /\ UNCHANGED <<mounted, openai, effTheme, dark, todoVars>>

HookNext ==
    \/ HookMount
    \/ HookRender
    \/ \E k \in HookKeys : KeyChange(k)
    \/ Unmount
    \/ \E g \in Globals(HookKeys) : HostPush(g)

HookSpec == HookInit /\ [][HookNext]_vars

----------------------------------------------------------------------------
(* Properties *)

NonBlank(s) == Trim(s) # <<>>

Carries(l, id) == \E i \in DOMAIN l : l[i].id = id

RemoveAt(l, i) == SubSeq(l, 1, i - 1) \o SubSeq(l, i + 1, Len(l))

RECURSIVE CompletedCount(_)
CompletedCount(l) ==
    IF l = <<>> THEN 0
    ELSE (IF Head(l).completed THEN 1 ELSE 0) + CompletedCount(Tail(l))

\* C1: every addTodo invoked with a non-blank input makes the list exactly
\* one item longer, every addTodo invoked with a blank input leaves its
\* length unchanged, also when several handlers run before the next render.
C1_AddLength ==
    [][AddTodo =>
          IF NonBlank(view.inputValue)
          THEN Len(todos') = Len(todos) + 1
          ELSE Len(todos') = Len(todos)]_vars

\* C2: deleteTodo(id), invoked on the list the view shows, removes exactly
\* one item when an item with that id is present (the others kept in order)
\* and leaves the list unchanged when no item has that id.
C2_DeleteOne ==
    [][\A id \in Ids :
          (DeleteTodo(id) /\ view.todos = todos) =>
              IF Carries(todos, id)
              THEN \E i \in DOMAIN todos :
                      todos[i].id = id /\ todos' = RemoveAt(todos, i)
              ELSE todos' = todos]_vars

\* the state after a single addTodo with input "Buy milk" since the view
\* was created with the empty list
AfterBuyMilk ==
    mounted /\ nops = 1 /\ log.op = "add" /\ log.input = BuyMilk

IsBuyMilkList(l) ==
    /\ Len(l) = 1
    /\ l[1].text = BuyMilk
    /\ l[1].completed = FALSE

\* C3 as stated: after a single addTodo with input "Buy milk" on the empty
\* list the list is [{text: "Buy milk", completed: false}] and the footer
\* reads "0 of 1 tasks remaining".
C3_FooterZeroOfOne ==
    AfterBuyMilk =>
        /\ IsBuyMilkList(todos)
        /\ view.todos = todos =>
              Footer(view.todos) = <<"0", " of ", "1", " tasks remaining">>

\* C3 amended: after a single addTodo with input "Buy milk" on the empty
\* list the list is [{text: "Buy milk", completed: false}] and the footer
\* reads "1 of 1 tasks remaining".
C3_FooterOneOfOne ==
    AfterBuyMilk =>
        /\ IsBuyMilkList(todos)
        /\ view.todos = todos =>
              Footer(view.todos) = <<"1", " of ", "1", " tasks remaining">>

C3_Witness == AfterBuyMilk /\ view.todos = todos

\* C4: the remaining count of the footer equals the list length minus the
\* number of completed items, in every reachable state.
C4_RemainingCount ==
    \A l \in {view.todos, todos} : Remaining(l) = Len(l) - CompletedCount(l)

C4_Witness ==
    /\ mounted
    /\ log.op = "toggle"
    /\ Len(view.todos) = 2
    /\ CompletedCount(view.todos) = 1

\* C5: toggleTodo(id) invoked twice in succession returns every item's
\* completed flag to its value before the first toggle, and toggleTodo with
\* an id that no item carries leaves the list unchanged.
C5_ToggleTwice ==
    [][\A id \in Ids :
          ToggleTodo(id) =>
              /\ ~Carries(todos, id) => todos' = todos
              /\ (log.op = "toggle" /\ log.id = id) => todos' = log.pre]_vars

\* C10: a successful addTodo appends one item {id: now, text: the raw input,
\* completed: false} at the end of the list, keeps every other item, and
\* clears the input; an addTodo on blank input changes neither.
C10_AddAppends ==
    [][AddTodo =>
          IF NonBlank(view.inputValue)
          THEN /\ todos' = Append(todos, AddedItem(now, view.inputValue))
               /\ inputValue' = <<>>
          ELSE /\ todos' = todos
               /\ inputValue' = inputValue]_vars

\* the statements of C1, C5 and C10 for handlers invoked on an up-to-date
\* view (no state update is waiting for a render)
OnCurrentView ==
    [][(view.todos = todos /\ view.inputValue = inputValue) =>
          /\ AddTodo =>
                IF NonBlank(inputValue)
                THEN /\ todos' = Append(todos, AddedItem(now, inputValue))
                     /\ inputValue' = <<>>
                ELSE UNCHANGED <<todos, inputValue>>
          /\ \A id \in Ids :
                ToggleTodo(id) =>
                    /\ ~Carries(todos, id) => todos' = todos
                    /\ ToggleList(todos', id) = todos]_vars

\* a hook call whose listener is registered
Live(s) ==
    /\ mounted
    /\ \E i \in DOMAIN listeners : listeners[i] = [slot |-> s, key |-> keys[s]]

\* C6: on every "openai:set_globals" event a live subscription for field K
\* takes the payload's value for K when K is a key of the payload (falsy
\* values and undefined included) and keeps its value otherwise; so the held
\* value is the value of the most recent payload that carried K.
C6_PushReplaces ==
    /\ [][\A g \in Globals(Keys) :
             HostPush(g) =>
                 \A s \in DOMAIN keys :
                     Live(s) =>
                         value'[s] = IF keys[s] \in DOMAIN g THEN g[keys[s]]
                                     ELSE value[s]]_vars
    /\ [](\A s \in DOMAIN keys :
             (Live(s) /\ lastRecv[s] # NoPayload) => value[s] = lastRecv[s])

C6_Witness ==
    \E s \in DOMAIN keys :
        /\ Live(s)
        /\ keys[s] = "locale"
        /\ lastRecv[s] = EmptyString
        /\ view.vals[s] = "en"

\* C7: on first use of the bridge for field K the held value is the value
\* of field K of the host object, whatever that value is, and undefined
\* when the host object or the field is absent.
C7_InitialRead ==
    [][HookMount => \A s \in DOMAIN keys : value'[s] = HostField(openai, keys[s])]_vars

\* C8: while the view is mounted exactly one listener is registered per
\* hook call, for the requested field; once the view is destroyed no
\* listener is left and no push changes a held value.
C8_ListenerLifecycle ==
    /\ [](/\ mounted =>
                /\ Len(listeners) = Len(keys)
                /\ \A s \in DOMAIN keys : Live(s)
          /\ ~mounted => listeners = <<>>)
    /\ [][(~mounted /\ ~mounted') => value' = value]_vars

C8_Witness ==
    /\ mounted
    /\ listeners = <<[slot |-> 1, key |-> "locale"]>>
    /\ value[1] \in FieldValues("theme") \ FieldValues("locale")

\* C9: once the theme effect has run for the current theme value, the dark
\* marker is present exactly when the held theme is "dark"; a push without
\* a theme key changes neither the theme nor the marker.
C9_DarkMarker ==
    /\ []((mounted /\ effTheme = value[1]) => (dark <=> value[1] = "dark"))
    /\ [][\A g \in Globals({"theme", "displayMode"}) :
             (HostPush(g) /\ "theme" \notin DOMAIN g) =>
                 (value'[1] = value[1] /\ dark' = dark)]_vars

C9_Witness ==
    /\ mounted
    /\ lastRecv[1] = "dark"
    /\ value[1] = "dark"
    /\ effTheme = "dark"
    /\ dark

====
